---- MODULE Spec2Model ----
(***************************************************************************)
(* Two command-line calculators of the repository, run on one command      *)
(* line each:                                                              *)
(*   F  test_folder/calculator/calculator.py  (choices + if/elif chain)    *)
(*   R  test_repo/calculator/calculator.py    (subparsers + operator)      *)
(* A Python float is modelled by the rational number it holds, a pair      *)
(* <<n, d>> in lowest terms with d > 0.  The operand texts of the model    *)
(* are short decimals whose value is a dyadic rational, so float() and     *)
(* + - * are exact on them; the sign of a zero, infinities and NaN are     *)
(* outside the operand set.                                                *)
(***************************************************************************)
EXTENDS Integers, Sequences, FiniteSets

VARIABLES argvF, pcF, argsF, resultF, stdoutF, stderrF, exitF,
          argvR, pcR, argsR, resultR, stdoutR, stderrR, exitR

varsF == <<argvF, pcF, argsF, resultF, stdoutF, stderrF, exitF>>
varsR == <<argvR, pcR, argsR, resultR, stdoutR, stderrR, exitR>>
vars == <<varsF, varsR>>

(* Largest digit used to build the operand texts. *)
MaxDigit == 4

----------------------------------------------------------------------------
(* Rational arithmetic: the values of Python floats. *)

Abs(n) == IF n < 0 THEN -n ELSE n

RECURSIVE GCD(_, _)
GCD(m, n) == IF n = 0 THEN m ELSE GCD(n, m % n)

Norm(n, d) ==
    LET g == GCD(Abs(n), Abs(d))
        s == IF d < 0 THEN -1 ELSE 1
    IN  <<(s * n) \div g, (s * d) \div g>>

Zero == <<0, 1>>

float_add(a, b) == Norm(a[1] * b[2] + b[1] * a[2], a[2] * b[2])
float_sub(a, b) == Norm(a[1] * b[2] - b[1] * a[2], a[2] * b[2])
float_mul(a, b) == Norm(a[1] * b[1], a[2] * b[2])
float_truediv(a, b) == Norm(a[1] * b[2], a[2] * b[1])

(* float.is_integer() *)
is_integer(r) == r[2] = 1

(* int(x): truncation towards zero *)
int(r) == IF r[1] >= 0 THEN r[1] \div r[2] ELSE -((-r[1]) \div r[2])

----------------------------------------------------------------------------
(* Python values, call outcomes and printed lines. *)

Float(r) == [type |-> "float", num |-> r, words |-> <<>>]
Str(w) == [type |-> "str", num |-> Zero, words |-> w]
Unbound == [type |-> "unbound", num |-> Zero, words |-> <<>>]

Return(v) == [chan |-> "return", val |-> v, exc |-> ""]
Raise(e) == [chan |-> "raise", val |-> Unbound, exc |-> e]
NotCalled == [chan |-> "none", val |-> Unbound, exc |-> ""]

(* A printed line is a sequence of segments: literal words, the text of an *)
(* int (digits only) or the repr of a float (always with a decimal point   *)
(* for the finite values of the model).                                    *)
Words(w) == [form |-> "words", num |-> Zero, words |-> w]
IntText(k) == [form |-> "int", num |-> <<k, 1>>, words |-> <<>>]
FloatText(r) == [form |-> "float", num |-> r, words |-> <<>>]

(* str(v) as used by print and by an f-string field *)
str(v) ==
    CASE v.type = "float" -> FloatText(v.num)
      [] v.type = "str" -> Words(v.words)
      [] OTHER -> Words(<<>>)

----------------------------------------------------------------------------
(* float(text): the conversion argparse applies to an operand (type=float). *)

DigitChars == <<"0", "1", "2", "3", "4", "5", "6", "7", "8", "9">>

IsDigit(c) == \E i \in 1..Len(DigitChars) : DigitChars[i] = c

DigitValue(c) == (CHOOSE i \in 1..Len(DigitChars) : DigitChars[i] = c) - 1

RECURSIVE DigitsValue(_)
DigitsValue(s) ==
    IF s = <<>> THEN 0
    ELSE DigitsValue(SubSeq(s, 1, Len(s) - 1)) * 10 + DigitValue(s[Len(s)])

RECURSIVE Pow10(_)
Pow10(k) == IF k = 0 THEN 1 ELSE 10 * Pow10(k - 1)

ValueError == [ok |-> FALSE, num |-> Zero]

ParseUnsigned(s) ==
    LET dots == {i \in 1..Len(s) : s[i] = "."}
        dot == IF dots = {} THEN Len(s) + 1 ELSE CHOOSE i \in dots : TRUE
        whole == SubSeq(s, 1, dot - 1)
        frac == SubSeq(s, dot + 1, Len(s))
    IN  IF \/ Cardinality(dots) > 1
           \/ Len(whole) + Len(frac) = 0
           \/ \E i \in 1..Len(whole) : ~IsDigit(whole[i])
           \/ \E i \in 1..Len(frac) : ~IsDigit(frac[i])
        THEN ValueError
        ELSE [ok |-> TRUE,
              num |-> Norm(DigitsValue(whole) * Pow10(Len(frac)) + DigitsValue(frac),
                           Pow10(Len(frac)))]

float(s) ==
    IF s # <<>> /\ s[1] \in {"-", "+"}
    THEN LET u == ParseUnsigned(Tail(s))
         IN  IF u.ok /\ s[1] = "-" THEN [ok |-> TRUE, num |-> <<-u.num[1], u.num[2]>>]
             ELSE u
    ELSE ParseUnsigned(s)

----------------------------------------------------------------------------
(* The command lines of the model. *)

OperationTokens ==
    {"add", "subtract", "multiply", "divide", "sub", "mul", "div", "pow"}

OperandTokens ==
    {<<DigitChars[d + 1]>> : d \in 0..MaxDigit}
    \cup {<<DigitChars[d + 1], ".", "5">> : d \in 0..MaxDigit}
    \cup {<<"-", "2">>, <<"-", "0">>, <<"1", "0">>, <<"x">>, <<"2", "x">>}

NoArgs == [operation |-> "", func |-> "", a |-> Zero, b |-> Zero]

UsageError == <<<<Words(<<"usage:">>)>>, <<Words(<<"error:">>)>>>>

----------------------------------------------------------------------------
(* Variant F: test_folder/calculator/calculator.py *)

add(a, b) == Return(Float(float_add(a, b)))

(* subtract with its operands exchanged *)
subtract_swapped(a, b) == Return(Float(float_sub(b, a)))

subtract(a, b) == Return(Float(float_sub(a, b)))

multiply(a, b) == Return(Float(float_mul(a, b)))

(* divide with a tolerance around zero instead of the exact comparison *)
divide_epsilon(a, b) ==
    IF Abs(b[1]) < b[2]
    THEN Return(Str(<<"Error:", "Division", "by", "zero">>))
    ELSE Return(Float(float_truediv(a, b)))

divide(a, b) ==
    IF b = Zero
    THEN Return(Str(<<"Error:", "Division", "by", "zero">>))
    ELSE Return(Float(float_truediv(a, b)))

(* choices with a name the chain has no branch for *)
choices_open == {"add", "subtract", "multiply", "divide", "pow"}

choices == {"add", "subtract", "multiply", "divide"}

(* The if/elif chain of main: without a matching branch result keeps the   *)
(* binding it had, which is none.                                          *)
dispatch_no_divide(operation, a, b, result) ==
    IF operation = "add" THEN add(a, b)
    ELSE IF operation = "subtract" THEN subtract(a, b)
    ELSE IF operation = "multiply" THEN multiply(a, b)
    ELSE result

dispatch(operation, a, b, result) ==
    IF operation = "add" THEN add(a, b)
    ELSE IF operation = "subtract" THEN subtract(a, b)
    ELSE IF operation = "multiply" THEN multiply(a, b)
    ELSE IF operation = "divide" THEN divide(a, b)
    ELSE result

ParseArgsF ==
    /\ pcF = "start"
    /\ LET a == float(argvF[2])
           b == float(argvF[3])
       IN  IF argvF[1] \in choices /\ a.ok /\ b.ok
           THEN /\ argsF' = [operation |-> argvF[1], func |-> "", a |-> a.num, b |-> b.num]
                /\ pcF' = "parsed"
                /\ UNCHANGED <<stderrF, exitF>>
           ELSE /\ stderrF' = stderrF \o UsageError
                /\ exitF' = 2
                /\ pcF' = "exited"
                /\ UNCHANGED argsF
    /\ UNCHANGED <<argvF, resultF, stdoutF>>
    /\ UNCHANGED varsR

DispatchF ==
    /\ pcF = "parsed"
    /\ resultF' = dispatch(argsF.operation, argsF.a, argsF.b, resultF)
    /\ pcF' = "dispatched"
    /\ UNCHANGED <<argvF, argsF, stdoutF, stderrF, exitF>>
    /\ UNCHANGED varsR

(* print(f"Result: {result}") and the end of the script.  Reading an       *)
(* unbound result raises NameError, which nothing catches: traceback on    *)
(* standard error, exit code 1.                                            *)
PrintF ==
    /\ pcF = "dispatched"
    /\ IF resultF.chan = "return"
       THEN /\ stdoutF' = Append(stdoutF, <<Words(<<"Result:">>), str(resultF.val)>>)
            /\ exitF' = 0
            /\ UNCHANGED stderrF
       ELSE /\ stderrF' = Append(stderrF, <<Words(<<"Traceback", "NameError">>)>>)
            /\ exitF' = 1
            /\ UNCHANGED stdoutF
    /\ pcF' = "exited"
    /\ UNCHANGED <<argvF, argsF, resultF>>
    /\ UNCHANGED varsR

----------------------------------------------------------------------------
(* Variant R: test_repo/calculator/calculator.py *)

operator_add(a, b) == Return(Float(float_add(a, b)))

(* operator.sub replaced by a difference taken the other way round *)
operator_rsub(a, b) == Return(Float(float_sub(b, a)))

operator_sub(a, b) == Return(Float(float_sub(a, b)))

(* operator.mul that reads its first operand twice *)
operator_mul_first(a, b) == Return(Float(float_mul(a, a)))

operator_mul(a, b) == Return(Float(float_mul(a, b)))

operator_truediv(a, b) ==
    IF b = Zero THEN Raise("ZeroDivisionError")
    ELSE Return(Float(float_truediv(a, b)))

ops ==
    <<[name |-> "add", func |-> "operator.add"],
      [name |-> "sub", func |-> "operator.sub"],
      [name |-> "mul", func |-> "operator.mul"],
      [name |-> "div", func |-> "operator.truediv"]>>

(* args.func(args.a, args.b) *)
call(func, a, b) ==
    CASE func = "operator.add" -> operator_add(a, b)
      [] func = "operator.sub" -> operator_sub(a, b)
      [] func = "operator.mul" -> operator_mul(a, b)
      [] func = "operator.truediv" -> operator_truediv(a, b)
      [] OTHER -> Raise("TypeError")

ParseArgsR ==
    /\ pcR = "start"
    /\ LET a == float(argvR[2])
           b == float(argvR[3])
           sub == {i \in 1..Len(ops) : ops[i].name = argvR[1]}
       IN  IF sub # {} /\ a.ok /\ b.ok
           THEN /\ argsR' = [operation |-> argvR[1],
                             func |-> ops[CHOOSE i \in sub : TRUE].func,
                             a |-> a.num, b |-> b.num]
                /\ pcR' = "parsed"
                /\ UNCHANGED <<stderrR, exitR>>
           ELSE /\ stderrR' = stderrR \o UsageError
                /\ exitR' = 2
                /\ pcR' = "exited"
                /\ UNCHANGED argsR
    /\ UNCHANGED <<argvR, resultR, stdoutR>>
    /\ UNCHANGED varsF

CallFuncR ==
    /\ pcR = "parsed"
    /\ resultR' = call(argsR.func, argsR.a, argsR.b)
    /\ pcR' = "called"
    /\ UNCHANGED <<argvR, argsR, stdoutR, stderrR, exitR>>
    /\ UNCHANGED varsF

(* The except clause, the formatting of the result and SystemExit(main()). *)
FinishR ==
    /\ pcR = "called"
    /\ IF resultR.chan = "raise" /\ resultR.exc = "ZeroDivisionError"
       THEN /\ stderrR' = Append(stderrR,
                  <<Words(<<"Error:", "Division", "by", "zero", "is", "not", "allowed.">>)>>)
            /\ exitR' = 1
            /\ UNCHANGED stdoutR
       ELSE IF resultR.chan = "raise"
       THEN /\ stderrR' = Append(stderrR, <<Words(<<"Traceback", resultR.exc>>)>>)
            /\ exitR' = 1
            /\ UNCHANGED stdoutR
       ELSE /\ stdoutR' = Append(stdoutR,
                  IF resultR.val.type = "float" /\ is_integer(resultR.val.num)
                  THEN <<IntText(int(resultR.val.num))>>
                  ELSE <<str(resultR.val)>>)
            /\ exitR' = 0
            /\ UNCHANGED stderrR
    /\ pcR' = "exited"
    /\ UNCHANGED <<argvR, argsR, resultR>>
    /\ UNCHANGED varsF

----------------------------------------------------------------------------

Init ==
    /\ argvF \in OperationTokens \X OperandTokens \X OperandTokens
    /\ argvR \in OperationTokens \X OperandTokens \X OperandTokens
    /\ argvR[2] = argvF[2]
    /\ argvR[3] = argvF[3]
    /\ pcF = "start" /\ pcR = "start"
    /\ argsF = NoArgs /\ argsR = NoArgs
    /\ resultF = NotCalled /\ resultR = NotCalled
    /\ stdoutF = <<>> /\ stdoutR = <<>>
    /\ stderrF = <<>> /\ stderrR = <<>>
    /\ exitF = -1 /\ exitR = -1

Next ==
    \/ ParseArgsF
    \/ DispatchF
    \/ PrintF
    \/ ParseArgsR
    \/ CallFuncR
    \/ FinishR

Spec == Init /\ [][Next]_vars

----------------------------------------------------------------------------
(* Vocabulary of the properties, stated without the operators above. *)

AcceptedF == argsF # NoArgs
AcceptedR == argsR # NoArgs

DispatchedF == AcceptedF /\ pcF \in {"dispatched", "exited"}
DispatchedR == AcceptedR /\ pcR \in {"called", "exited"}

FinishedF == AcceptedF /\ pcF = "exited"
FinishedR == AcceptedR /\ pcR = "exited"

DivideByZeroF == argsF.operation = "divide" /\ argsF.b[1] = 0
DivideByZeroR == argsR.operation = "div" /\ argsR.b[1] = 0

IsSum(v, a, b) == v[1] * a[2] * b[2] = (a[1] * b[2] + b[1] * a[2]) * v[2]
IsDifference(v, a, b) == v[1] * a[2] * b[2] = (a[1] * b[2] - b[1] * a[2]) * v[2]
IsProduct(v, a, b) == v[1] * a[2] * b[2] = a[1] * b[1] * v[2]
IsQuotient(v, a, b) == v[1] * b[1] * a[2] = a[1] * b[2] * v[2]

IsNumber(o) == o.chan = "return" /\ o.val.type = "float"

MentionsZero(line) ==
    \E i \in 1..Len(line) : \E j \in 1..Len(line[i].words) : line[i].words[j] = "zero"

(* C1: Divide with a second operand equal to zero yields the error outcome,  *)
(* raised on the error channel and never returned as a value, in both        *)
(* variants.                                                                  *)
C1_ErrorChannelR == DispatchedR /\ DivideByZeroR => resultR.chan = "raise"
C1_ErrorChannelF == DispatchedF /\ DivideByZeroF => resultF.chan = "raise"
C1_DivideByZeroIsError == C1_ErrorChannelR /\ C1_ErrorChannelF

(* C2: an accepted run exits with 1 when it divides by zero and with 0       *)
(* otherwise, in both variants.                                               *)
C2_ExitCodeR == FinishedR => exitR = (IF DivideByZeroR THEN 1 ELSE 0)
C2_ExitCodeF == FinishedF => exitF = (IF DivideByZeroF THEN 1 ELSE 0)
C2_ExitCode == C2_ExitCodeR /\ C2_ExitCodeF

(* C3: an accepted run writes exactly one line to exactly one stream: one    *)
(* line on standard output on success, one line mentioning "zero" on         *)
(* standard error on division by zero.                                        *)
OneLine(divzero, out, err) ==
    IF divzero
    THEN out = <<>> /\ Len(err) = 1 /\ MentionsZero(err[1])
    ELSE Len(out) = 1 /\ err = <<>>
C3_OneLineR == FinishedR => OneLine(DivideByZeroR, stdoutR, stderrR)
C3_OneLineF == FinishedF => OneLine(DivideByZeroF, stdoutF, stderrF)
C3_OneLineOneStream == C3_OneLineR /\ C3_OneLineF

(* C4: a numeric result is printed without a decimal point when it has no    *)
(* fractional part and with its fractional part otherwise, for all four      *)
(* operations of both variants.                                               *)
Rendered(o, out) ==
    /\ Len(out) = 1
    /\ LET shown == out[1][Len(out[1])]
       IN  /\ shown.num = o.val.num
           /\ shown.form = (IF o.val.num[2] = 1 THEN "int" ELSE "float")
C4_FormatR == FinishedR /\ IsNumber(resultR) => Rendered(resultR, stdoutR)
C4_FormatF == FinishedF /\ IsNumber(resultF) => Rendered(resultF, stdoutF)
C4_IntegralWithoutPoint == C4_FormatR /\ C4_FormatF

(* C5: the dispatcher maps each operation name to its own computation: add   *)
(* yields a + b, subtract yields a - b (not b - a), multiply yields a * b.   *)
C5_DispatchF ==
    DispatchedF =>
        /\ argsF.operation = "add" =>
               IsNumber(resultF) /\ IsSum(resultF.val.num, argsF.a, argsF.b)
        /\ argsF.operation = "subtract" =>
               IsNumber(resultF) /\ IsDifference(resultF.val.num, argsF.a, argsF.b)
        /\ argsF.operation = "multiply" =>
               IsNumber(resultF) /\ IsProduct(resultF.val.num, argsF.a, argsF.b)
C5_DispatchR ==
    /\ AcceptedR =>
        /\ argsR.operation = "add" => argsR.func = "operator.add"
        /\ argsR.operation = "sub" => argsR.func = "operator.sub"
        /\ argsR.operation = "mul" => argsR.func = "operator.mul"
        /\ argsR.operation = "div" => argsR.func = "operator.truediv"
    /\ DispatchedR =>
        /\ argsR.operation = "add" =>
               IsNumber(resultR) /\ IsSum(resultR.val.num, argsR.a, argsR.b)
        /\ argsR.operation = "sub" =>
               IsNumber(resultR) /\ IsDifference(resultR.val.num, argsR.a, argsR.b)
        /\ argsR.operation = "mul" =>
               IsNumber(resultR) /\ IsProduct(resultR.val.num, argsR.a, argsR.b)
C5_DispatchMatches == C5_DispatchF /\ C5_DispatchR

C5_Witness ==
    /\ DispatchedF /\ argsF.operation = "subtract"
    /\ argsF.a = <<2, 1>> /\ argsF.b = <<7, 2>>
    /\ resultF = Return(Float(<<-3, 2>>))
    /\ DispatchedR /\ argsR.operation = "mul"
    /\ resultR = Return(Float(<<7, 1>>))

(* C6: with a divisor that is not exactly zero Divide succeeds with a / b;   *)
(* the division-by-zero outcome (the raised error of R, the sentinel string  *)
(* of F) appears only for a divisor equal to zero.                           *)
C6_DivideF ==
    DispatchedF /\ argsF.operation = "divide" =>
        /\ argsF.b[1] # 0 =>
               IsNumber(resultF) /\ IsQuotient(resultF.val.num, argsF.a, argsF.b)
        /\ ~IsNumber(resultF) => argsF.b[1] = 0
C6_DivideR ==
    DispatchedR /\ argsR.operation = "div" =>
        /\ argsR.b[1] # 0 =>
               IsNumber(resultR) /\ IsQuotient(resultR.val.num, argsR.a, argsR.b)
        /\ ~IsNumber(resultR) => argsR.b[1] = 0
C6_DivideExactZeroOnly == C6_DivideF /\ C6_DivideR

C6_Witness ==
    /\ DispatchedF /\ argsF.operation = "divide"
    /\ argsF.a = <<3, 1>> /\ argsF.b = <<1, 2>>
    /\ resultF = Return(Float(<<6, 1>>))
    /\ DispatchedR /\ argsR.operation = "div"
    /\ resultR = Return(Float(<<6, 1>>))

(* C7: parsing precedes dispatch; a command line with an unknown operation   *)
(* name or an unparseable operand ends with a non-zero exit code and without *)
(* the dispatcher being entered, so the dispatcher only ever sees one of the *)
(* four operations of its variant.                                            *)
Malformed(argv, names) ==
    \/ argv[1] \notin names
    \/ \E i \in {2, 3} : \E j \in 1..Len(argv[i]) :
           argv[i][j] \notin {"-", ".", "0", "1", "2", "3", "4", "5", "6", "7", "8", "9"}
NamesF == {"add", "subtract", "multiply", "divide"}
NamesR == {"add", "sub", "mul", "div"}
C7_Rejected ==
    /\ Malformed(argvF, NamesF) /\ pcF # "start" =>
           pcF = "exited" /\ exitF > 0 /\ resultF = NotCalled /\ stdoutF = <<>>
    /\ Malformed(argvR, NamesR) /\ pcR # "start" =>
           pcR = "exited" /\ exitR > 0 /\ resultR = NotCalled /\ stdoutR = <<>>
    /\ pcF = "dispatched" => argsF.operation \in NamesF
    /\ pcR = "called" => argsR.operation \in NamesR
C7_Order ==
    /\ pcF' = "dispatched" /\ pcF # "dispatched" => pcF = "parsed" /\ AcceptedF
    /\ pcR' = "called" /\ pcR # "called" => pcR = "parsed" /\ AcceptedR
    /\ resultF' # resultF => pcF = "parsed"
    /\ resultR' # resultR => pcR = "parsed"
C7_ParseBeforeDispatch == [](C7_Rejected) /\ [][C7_Order]_vars

C7_Witness ==
    /\ argvF[1] = "pow" /\ pcF = "exited" /\ exitF = 2
    /\ argvR[1] = "div" /\ argvR[2] = <<"x">> /\ pcR = "exited" /\ exitR = 2

(* C8: Add and Multiply are commutative through the dispatcher: the outcome  *)
(* for (a, b) is the outcome of the dispatcher for (b, a).                   *)
C8_Commutative ==
    /\ DispatchedF /\ argsF.operation \in {"add", "multiply"} =>
           resultF = dispatch(argsF.operation, argsF.b, argsF.a, NotCalled)
    /\ DispatchedR /\ argsR.operation \in {"add", "mul"} =>
           resultR = call(argsR.func, argsR.b, argsR.a)

C8_Witness ==
    /\ DispatchedF /\ argsF.operation = "add"
    /\ DispatchedR /\ argsR.operation = "mul"
    /\ argsR.a = <<3, 2>> /\ argsR.b = <<-2, 1>>
    /\ resultR = Return(Float(<<-3, 1>>))

(* C9: in variant F result is bound whenever the print statement is reached: *)
(* every accepted operation name matches one branch of the chain.            *)
C9_ResultBound ==
    /\ pcF = "dispatched" => resultF.chan = "return" /\ resultF.val # Unbound
    /\ FinishedF => Len(stdoutF) = 1 /\ stderrF = <<>>

C9_Witness ==
    /\ pcF = "dispatched" /\ argsF.operation = "divide"
    /\ resultF.chan = "return"

(* C10: on inputs without an error the variants agree: for corresponding     *)
(* operations and a divisor that is not zero both compute the same number    *)
(* and both exit with 0.                                                      *)
Corresponding ==
    <<argsF.operation, argsR.operation>> \in
        {<<"add", "add">>, <<"subtract", "sub">>, <<"multiply", "mul">>, <<"divide", "div">>}
C10_VariantsAgree ==
    FinishedF /\ FinishedR /\ Corresponding /\ ~DivideByZeroF =>
        /\ IsNumber(resultF) /\ IsNumber(resultR)
        /\ resultF.val.num = resultR.val.num
        /\ exitF = 0 /\ exitR = 0

C10_Witness ==
    /\ FinishedF /\ FinishedR
    /\ argsF.operation = "subtract" /\ argsR.operation = "sub"
    /\ argsF.a = <<1, 2>> /\ argsF.b = <<10, 1>>
    /\ resultR = Return(Float(<<-19, 2>>))
    /\ exitF = 0 /\ exitR = 0

====
